---- MODULE Spec2Model ----
(***************************************************************************)
(* Model of lib/lock_manager.py: DefaultLockManager (one RLock, a map      *)
(* filename -> SharedExclusiveLock) and SharedExclusiveLock (holders, the  *)
(* deque of blocked clients, the fast paths, _wait and _wakeup_blocked).   *)
(*                                                                         *)
(* One filename is tracked: every filename has its own SharedExclusiveLock *)
(* and the code never reads one lock's fields while working on another.    *)
(* A step of the model is one stretch of code run under the manager mutex  *)
(* (or one call of the native lock function, which runs outside it).       *)
(***************************************************************************)
EXTENDS Integers, Sequences, FiniteSets, TLC

LOCK_NONE == 0
LOCK_SHARED == 1
LOCK_RESERVED == 2
LOCK_PENDING == 3
LOCK_EXCLUSIVE == 4

\* LEVEL_NAMES.keys()
LEVEL_NAMES == {LOCK_NONE, LOCK_SHARED, LOCK_RESERVED, LOCK_PENDING, LOCK_EXCLUSIVE}

\* Number of clients (connections) of the general specification.
NumClients == 3

\* Number of locker threads of CheckMutualExclusion.
NumLockers == 5

\* DefaultLockManager.__init__(timeout=5); None is "block forever".
\* timeout is <<seconds>>, or <<>> for None.
DefaultTimeout == 5
NoTimeout == <<>>

FileName == "filename"

Clients == 1..NumClients
Lockers == 1..NumLockers

\* Levels the callers pass: lock() is tried with every named level (only
\* SHARED, RESERVED and EXCLUSIVE are accepted), unlock() with the levels a
\* client can be lowered to.
LockLevels == LEVEL_NAMES
UnlockLevels == {LOCK_NONE, LOCK_SHARED, LOCK_RESERVED}

VARIABLES
    lock_holders,      \* SharedExclusiveLock._lock_holders: client -> level, 0 when absent
    blocked_clients,   \* SharedExclusiveLock._blocked_clients: deque of [client, level]
    filelocks,         \* DefaultLockManager._filelocks: the set of registered filenames
    timeout,           \* DefaultLockManager.timeout
    pc,                \* where each client's thread is: idle, waiting, signalled, callback
    level_req,         \* the level argument of the client's lock call in progress
    old_level,         \* old_level of the client's lock call in progress
    todo,              \* levels of _ascend_level still to be handed to lockfunc
    last,              \* what the last step did: its client, operation, outcome, levels installed
    prog               \* position of each locker thread in its lock sequence

vars == <<lock_holders, blocked_clients, filelocks, timeout, pc, level_req, old_level, todo, last, prog>>

----------------------------------------------------------------------------
\* Pure helpers

Max(S) == CHOOSE x \in S : \A y \in S : y <= x

\* max(lock_levels) if lock_levels else LOCK_NONE, over the holders other than client
MaxOther(h, client) == Max({h[k] : k \in DOMAIN h \ {client}} \cup {LOCK_NONE})

MaxLevel(h) == Max({h[k] : k \in DOMAIN h} \cup {LOCK_NONE})

Holders(h) == {k \in DOMAIN h : h[k] # LOCK_NONE}

\* _ascend_level with "level >= old_level": the held level is invoked again
AscendLevel_Inclusive(old, new) ==
    SelectSeq(<<1, 2, 4>>, LAMBDA level : level <= new /\ level >= old)

\* _ascend_level(old_level, new_level)
AscendLevel(old, new) ==
    SelectSeq(<<1, 2, 4>>, LAMBDA level : level <= new /\ level > old)

\* SharedExclusiveLock.is_idle: not self._lock_holders
FileLockIsIdle(h) == Holders(h) = {}

\* The six assertions of SharedExclusiveLock.check_invariant
CheckInvariant(h, q) ==
    /\ {h[k] : k \in Holders(h)} \subseteq LEVEL_NAMES
    /\ (q = <<>> \/ Holders(h) # {})
    /\ (~(q # <<>> /\ Head(q).level = LOCK_SHARED) \/ MaxLevel(h) >= LOCK_PENDING)
    /\ Cardinality({k \in Holders(h) : h[k] > LOCK_SHARED}) <= 1
    /\ ((\A k \in Holders(h) : h[k] # LOCK_EXCLUSIVE) \/ Cardinality(Holders(h)) = 1)
    /\ ((\A k \in Holders(h) : h[k] # LOCK_PENDING) \/ (\E k \in Holders(h) : h[k] = LOCK_SHARED))

Waiter(client, level) == [client |-> client, level |-> level]

Install(client, level, h) == [client |-> client, level |-> level, max_other |-> MaxOther(h, client)]

----------------------------------------------------------------------------
\* SharedExclusiveLock: arbitration.  Each operator returns what the code did:
\* kind is "grant" (fast path), "wait" (a BlockedClientInfo was enqueued and
\* the thread blocks), "deadlock" (DeadlockError), "assert" (AssertionError),
\* "noop" or "valueerror"; h and q are the holders and the queue afterwards;
\* installed lists the levels written into _lock_holders.

Outcome(kind, h, q, installed) == [kind |-> kind, h |-> h, q |-> q, installed |-> installed]

\* _wait: the enqueueing half (the blocking half is the thread's pc)
Enqueue(q, client, level, enqueue_front) ==
    IF enqueue_front THEN <<Waiter(client, level)>> \o q
    ELSE Append(q, Waiter(client, level))

\* Mutant of _acquire_shared: "max_level == LOCK_NONE" for "max_level < LOCK_PENDING"
AcquireShared_OnlyWhenFree(h, q, client, old) ==
    IF MaxOther(h, client) = LOCK_NONE /\ q = <<>>
    THEN Outcome("grant", [h EXCEPT ![client] = LOCK_SHARED], q,
                 <<Install(client, LOCK_SHARED, h)>>)
    ELSE Outcome("wait", h, Enqueue(q, client, LOCK_SHARED, FALSE), <<>>)

\* Mutant of _acquire_shared: "max_level <= LOCK_PENDING" for "max_level < LOCK_PENDING"
AcquireShared_IgnoresPending(h, q, client, old) ==
    IF MaxOther(h, client) <= LOCK_PENDING /\ q = <<>>
    THEN Outcome("grant", [h EXCEPT ![client] = LOCK_SHARED], q,
                 <<Install(client, LOCK_SHARED, h)>>)
    ELSE Outcome("wait", h, Enqueue(q, client, LOCK_SHARED, FALSE), <<>>)

\* Mutant of _acquire_shared: the fast path without "and not self._blocked_clients"
AcquireShared_IgnoresQueue(h, q, client, old) ==
    IF MaxOther(h, client) < LOCK_PENDING
    THEN Outcome("grant", [h EXCEPT ![client] = LOCK_SHARED], q,
                 <<Install(client, LOCK_SHARED, h)>>)
    ELSE Outcome("wait", h, Enqueue(q, client, LOCK_SHARED, FALSE), <<>>)

\* _acquire_shared
AcquireShared(h, q, client, old) ==
    IF MaxOther(h, client) < LOCK_PENDING /\ q = <<>>
    THEN Outcome("grant", [h EXCEPT ![client] = LOCK_SHARED], q,
                 <<Install(client, LOCK_SHARED, h)>>)
    ELSE Outcome("wait", h, Enqueue(q, client, LOCK_SHARED, FALSE), <<>>)

\* Mutant of _acquire_reserved: the fast path tests the rule of _acquire_shared
AcquireReserved_SharedRule(h, q, client, old) ==
    IF MaxOther(h, client) < LOCK_PENDING /\ q = <<>>
    THEN Outcome("grant", [h EXCEPT ![client] = LOCK_RESERVED], q,
                 <<Install(client, LOCK_RESERVED, h)>>)
    ELSE IF old # LOCK_NONE
         THEN Outcome("deadlock", h, q, <<>>)
         ELSE Outcome("wait", h, Enqueue(q, client, LOCK_RESERVED, FALSE), <<>>)

\* Mutant of _acquire_reserved: no "if old_level != LOCK_NONE: raise DeadlockError()"
AcquireReserved_AlwaysWaits(h, q, client, old) ==
    IF MaxOther(h, client) < LOCK_RESERVED /\ q = <<>>
    THEN Outcome("grant", [h EXCEPT ![client] = LOCK_RESERVED], q,
                 <<Install(client, LOCK_RESERVED, h)>>)
    ELSE Outcome("wait", h, Enqueue(q, client, LOCK_RESERVED, FALSE), <<>>)

\* Mutant of _acquire_reserved: the fast path writes LOCK_SHARED
AcquireReserved_InstallsShared(h, q, client, old) ==
    IF MaxOther(h, client) < LOCK_RESERVED /\ q = <<>>
    THEN Outcome("grant", [h EXCEPT ![client] = LOCK_SHARED], q,
                 <<Install(client, LOCK_SHARED, h)>>)
    ELSE IF old # LOCK_NONE
         THEN Outcome("deadlock", h, q, <<>>)
         ELSE Outcome("wait", h, Enqueue(q, client, LOCK_RESERVED, FALSE), <<>>)

\* Mutant of _acquire_reserved: DeadlockError without the test of old_level
AcquireReserved_AlwaysRefuses(h, q, client, old) ==
    IF MaxOther(h, client) < LOCK_RESERVED /\ q = <<>>
    THEN Outcome("grant", [h EXCEPT ![client] = LOCK_RESERVED], q,
                 <<Install(client, LOCK_RESERVED, h)>>)
    ELSE Outcome("deadlock", h, q, <<>>)

\* _acquire_reserved
AcquireReserved(h, q, client, old) ==
    IF MaxOther(h, client) < LOCK_RESERVED /\ q = <<>>
    THEN Outcome("grant", [h EXCEPT ![client] = LOCK_RESERVED], q,
                 <<Install(client, LOCK_RESERVED, h)>>)
    ELSE IF old # LOCK_NONE
         THEN Outcome("deadlock", h, q, <<>>)
         ELSE Outcome("wait", h, Enqueue(q, client, LOCK_RESERVED, FALSE), <<>>)

\* Mutant of _acquire_exclusive: "max_level <= LOCK_SHARED" for "max_level == LOCK_NONE"
AcquireExclusive_IgnoresReaders(h, q, client, old) ==
    IF MaxOther(h, client) <= LOCK_SHARED
    THEN Outcome("grant", [h EXCEPT ![client] = LOCK_EXCLUSIVE], q,
                 <<Install(client, LOCK_EXCLUSIVE, h)>>)
    ELSE IF ~(old = LOCK_NONE \/ old = LOCK_SHARED)
    THEN Outcome("assert", h, q, <<>>)
    ELSE IF old = LOCK_NONE
    THEN Outcome("wait", h, Enqueue(q, client, LOCK_EXCLUSIVE, FALSE), <<>>)
    ELSE Outcome("deadlock", h, q, <<>>)

\* Mutant of _acquire_exclusive: the branch for readers waits without
\* writing LOCK_PENDING into _lock_holders
AcquireExclusive_NoPending(h, q, client, old) ==
    IF MaxOther(h, client) = LOCK_NONE
    THEN Outcome("grant", [h EXCEPT ![client] = LOCK_EXCLUSIVE], q,
                 <<Install(client, LOCK_EXCLUSIVE, h)>>)
    ELSE IF MaxOther(h, client) = LOCK_SHARED
    THEN Outcome("wait", h, Enqueue(q, client, LOCK_EXCLUSIVE, TRUE), <<>>)
    ELSE IF ~(old = LOCK_NONE \/ old = LOCK_SHARED)
    THEN Outcome("assert", h, q, <<>>)
    ELSE IF old = LOCK_NONE
    THEN Outcome("wait", h, Enqueue(q, client, LOCK_EXCLUSIVE, FALSE), <<>>)
    ELSE Outcome("deadlock", h, q, <<>>)

\* Mutant of _acquire_exclusive: a SHARED holder waits behind a writer
\* instead of raising DeadlockError
AcquireExclusive_NeverRefuses(h, q, client, old) ==
    IF MaxOther(h, client) = LOCK_NONE
    THEN Outcome("grant", [h EXCEPT ![client] = LOCK_EXCLUSIVE], q,
                 <<Install(client, LOCK_EXCLUSIVE, h)>>)
    ELSE IF MaxOther(h, client) = LOCK_SHARED
    THEN Outcome("wait", [h EXCEPT ![client] = LOCK_PENDING],
                 Enqueue(q, client, LOCK_EXCLUSIVE, TRUE),
                 <<Install(client, LOCK_PENDING, h)>>)
    ELSE IF ~(old = LOCK_NONE \/ old = LOCK_SHARED)
    THEN Outcome("assert", h, q, <<>>)
    ELSE Outcome("wait", h, Enqueue(q, client, LOCK_EXCLUSIVE, FALSE), <<>>)

\* _acquire_exclusive
AcquireExclusive(h, q, client, old) ==
    IF MaxOther(h, client) = LOCK_NONE
    THEN Outcome("grant", [h EXCEPT ![client] = LOCK_EXCLUSIVE], q,
                 <<Install(client, LOCK_EXCLUSIVE, h)>>)
    ELSE IF MaxOther(h, client) = LOCK_SHARED
    THEN Outcome("wait", [h EXCEPT ![client] = LOCK_PENDING],
                 Enqueue(q, client, LOCK_EXCLUSIVE, TRUE),
                 <<Install(client, LOCK_PENDING, h)>>)
    ELSE IF ~(old = LOCK_NONE \/ old = LOCK_SHARED)
    THEN Outcome("assert", h, q, <<>>)
    ELSE IF old = LOCK_NONE
    THEN Outcome("wait", h, Enqueue(q, client, LOCK_EXCLUSIVE, FALSE), <<>>)
    ELSE Outcome("deadlock", h, q, <<>>)

\* Mutant of lock: the level is validated before it is compared with the
\* held level
FileLockLock_ValidatesFirst(h, q, client, level) ==
    LET old == h[client] IN
    IF level \notin {LOCK_SHARED, LOCK_RESERVED, LOCK_EXCLUSIVE}
    THEN Outcome("valueerror", h, q, <<>>)
    ELSE IF ~(level > old) THEN Outcome("noop", h, q, <<>>)
    ELSE IF level = LOCK_SHARED THEN AcquireShared(h, q, client, old)
    ELSE IF level = LOCK_RESERVED THEN AcquireReserved(h, q, client, old)
    ELSE AcquireExclusive(h, q, client, old)

\* SharedExclusiveLock.lock, up to its closing check_invariant
FileLockLock(h, q, client, level) ==
    LET old == h[client] IN
    IF ~(level > old) THEN Outcome("noop", h, q, <<>>)
    ELSE IF level = LOCK_SHARED THEN AcquireShared(h, q, client, old)
    ELSE IF level = LOCK_RESERVED THEN AcquireReserved(h, q, client, old)
    ELSE IF level = LOCK_EXCLUSIVE THEN AcquireExclusive(h, q, client, old)
    ELSE Outcome("valueerror", h, q, <<>>)

\* Mutant of _wakeup_blocked: "if self._blocked_clients" for "while", so one
\* waiter at most is granted per run
WakeupLoop_OneGrant(h, q, sig, installed) ==
    IF q = <<>> THEN [h |-> h, q |-> q, sig |-> sig, installed |-> installed]
    ELSE
      LET blocked_info == Head(q)
          client == blocked_info.client
          level == blocked_info.level
          max_level == MaxOther(h, client)
          stop == [h |-> h, q |-> q, sig |-> sig, installed |-> installed]
          grant == [h |-> [h EXCEPT ![client] = level], q |-> Tail(q),
                    sig |-> sig \cup {client},
                    installed |-> Append(installed, Install(client, level, h))]
      IN  IF level = LOCK_SHARED
          THEN (IF max_level < LOCK_PENDING THEN grant ELSE stop)
          ELSE IF level = LOCK_RESERVED
          THEN (IF max_level < LOCK_RESERVED THEN grant ELSE stop)
          ELSE IF max_level = LOCK_NONE THEN grant
          ELSE IF max_level = LOCK_SHARED
          THEN [h |-> [h EXCEPT ![client] = LOCK_PENDING], q |-> q, sig |-> sig,
                installed |-> Append(installed, Install(client, LOCK_PENDING, h))]
          ELSE stop

\* _wakeup_blocked: the while loop.  sig is the set of clients signalled.
RECURSIVE WakeupLoop(_, _, _, _)
WakeupLoop(h, q, sig, installed) ==
    IF q = <<>> THEN [h |-> h, q |-> q, sig |-> sig, installed |-> installed]
    ELSE
      LET blocked_info == Head(q)
          client == blocked_info.client
          level == blocked_info.level
          max_level == MaxOther(h, client)
          stop == [h |-> h, q |-> q, sig |-> sig, installed |-> installed]
          grant == WakeupLoop([h EXCEPT ![client] = level], Tail(q), sig \cup {client},
                              Append(installed, Install(client, level, h)))
      IN  IF level = LOCK_SHARED
          THEN (IF max_level < LOCK_PENDING THEN grant ELSE stop)
          ELSE IF level = LOCK_RESERVED
          THEN (IF max_level < LOCK_RESERVED THEN grant ELSE stop)
          ELSE IF max_level = LOCK_NONE THEN grant
          ELSE IF max_level = LOCK_SHARED
          THEN [h |-> [h EXCEPT ![client] = LOCK_PENDING], q |-> q, sig |-> sig,
                installed |-> Append(installed, Install(client, LOCK_PENDING, h))]
          ELSE stop

\* _wakeup_blocked: the loop, then check_invariant (ok is FALSE when it raises)
WakeupBlocked(h, q) ==
    LET r == WakeupLoop(h, q, {}, <<>>)
    IN  [h |-> r.h, q |-> r.q, sig |-> r.sig, installed |-> r.installed,
         ok |-> CheckInvariant(r.h, r.q)]

\* Mutant of unlock: no call of _wakeup_blocked
FileLockUnlock_NoWakeup(h, q, client, level) ==
    IF level < h[client]
    THEN [h |-> [h EXCEPT ![client] = level], q |-> q, sig |-> {}, installed |-> <<>>,
          ok |-> TRUE]
    ELSE [h |-> h, q |-> q, sig |-> {}, installed |-> <<>>, ok |-> TRUE]

\* Mutant of unlock: "del self._lock_holders[client]" whatever the level
FileLockUnlock_AlwaysDeletes(h, q, client, level) ==
    IF level < h[client]
    THEN WakeupBlocked([h EXCEPT ![client] = LOCK_NONE], q)
    ELSE [h |-> h, q |-> q, sig |-> {}, installed |-> <<>>, ok |-> TRUE]

\* Mutant of unlock: _wakeup_blocked is called outside "if level < old_level"
FileLockUnlock_AlwaysWakes(h, q, client, level) ==
    IF level < h[client]
    THEN WakeupBlocked([h EXCEPT ![client] = level], q)
    ELSE WakeupBlocked(h, q)

\* Mutant of unlock: _wakeup_blocked is called in the else branch only, so
\* not after "del self._lock_holders[client]"
FileLockUnlock_WakeupInElse(h, q, client, level) ==
    IF level < h[client]
    THEN IF level = LOCK_NONE
         THEN [h |-> [h EXCEPT ![client] = LOCK_NONE], q |-> q, sig |-> {},
               installed |-> <<>>, ok |-> TRUE]
         ELSE WakeupBlocked([h EXCEPT ![client] = level], q)
    ELSE [h |-> h, q |-> q, sig |-> {}, installed |-> <<>>, ok |-> TRUE]

\* SharedExclusiveLock.unlock
FileLockUnlock(h, q, client, level) ==
    IF level < h[client]
    THEN WakeupBlocked([h EXCEPT ![client] = level], q)
    ELSE [h |-> h, q |-> q, sig |-> {}, installed |-> <<>>, ok |-> TRUE]

\* _wait, on timeout, with popleft() in place of the search for the own record
RemoveWaiter_PopLeft(q, client) == Tail(q)

\* _wait, on timeout: delete the thread's own BlockedClientInfo from the deque
RemoveWaiter(q, client) == SelectSeq(q, LAMBDA b : b.client # client)

\* Mutant of the finally clause: the filename is never popped
Finally_NeverDrops(h) == filelocks \cup {FileName}

\* DefaultLockManager.lock / unlock: the finally clause.  The filename was
\* registered on entry; it is dropped when the file lock is idle.
Finally(h) == IF FileLockIsIdle(h) THEN filelocks \ {FileName} ELSE filelocks \cup {FileName}

----------------------------------------------------------------------------
\* State machine

\* client, op and level: whose call the step belongs to, what the step was
\* ("lock", "timeout", "resume", "lockfunc", "unlock") and the call's level
\* argument; outcome: "blocked", "granted" (arbitration done, lockfunc calls
\* follow), "called" (one lockfunc call returned, more follow), "ok" (the call
\* returned) or the exception raised to the caller; installed: the levels
\* written into _lock_holders by the step, in order; old: the old_level of
\* the lock call the step belongs to (what SharedExclusiveLock.lock returns
\* or would have returned); code: the resultcode of a lock_result call.
Report(client, op, level, outcome, installed) ==
    [client |-> client, op |-> op, level |-> level, outcome |-> outcome,
     installed |-> installed, old |-> LOCK_NONE, code |-> 0]

ReportOld(client, op, level, old, outcome, installed) ==
    [Report(client, op, level, outcome, installed) EXCEPT !.old = old]

InitOver(C, t) ==
    /\ lock_holders = [c \in C |-> LOCK_NONE]
    /\ blocked_clients = <<>>
    /\ filelocks = {}
    /\ timeout = t
    /\ pc = [c \in C |-> "idle"]
    /\ level_req = [c \in C |-> LOCK_NONE]
    /\ old_level = [c \in C |-> LOCK_NONE]
    /\ todo = [c \in C |-> <<>>]
    /\ last = Report(0, "init", LOCK_NONE, "none", <<>>)
    /\ prog = [c \in C |-> 0]

\* DefaultLockManager(), as the tests build it, or DefaultLockManager(timeout=None)
Init == \E t \in {<<DefaultTimeout>>, NoTimeout} : InitOver(Clients, t)

\* The thread of client c goes back to its caller.
Return(c) ==
    /\ pc' = [pc EXCEPT ![c] = "idle"]
    /\ level_req' = [level_req EXCEPT ![c] = LOCK_NONE]
    /\ old_level' = [old_level EXCEPT ![c] = LOCK_NONE]
    /\ todo' = [todo EXCEPT ![c] = <<>>]

\* Mutant of DefaultLockManager.lock: lockfunc is called inside "with self._mutex",
\* so no other call enters while a callback runs
LockCall_UnderCallbackMutex(c, level) ==
    /\ pc[c] = "idle"
    /\ \A d \in Clients : pc[d] # "callback"
    /\ LET r == FileLockLock(lock_holders, blocked_clients, c, level)
           checked == CheckInvariant(r.h, r.q)
       IN
       /\ lock_holders' = r.h
       /\ blocked_clients' = r.q
       /\ filelocks' = IF r.kind = "wait" THEN filelocks \cup {FileName} ELSE Finally(r.h)
       /\ IF r.kind = "wait"
          THEN /\ pc' = [pc EXCEPT ![c] = "waiting"]
               /\ level_req' = [level_req EXCEPT ![c] = level]
               /\ old_level' = [old_level EXCEPT ![c] = lock_holders[c]]
               /\ todo' = todo
               /\ last' = ReportOld(c, "lock", level, lock_holders[c], "blocked", r.installed)
          ELSE IF r.kind = "grant" /\ checked
          THEN /\ pc' = [pc EXCEPT ![c] = "callback"]
               /\ level_req' = [level_req EXCEPT ![c] = level]
               /\ old_level' = [old_level EXCEPT ![c] = lock_holders[c]]
               /\ todo' = [todo EXCEPT ![c] = AscendLevel(lock_holders[c], level)]
               /\ last' = ReportOld(c, "lock", level, lock_holders[c], "granted", r.installed)
          ELSE /\ Return(c)
               /\ last' = ReportOld(c, "lock", level, lock_holders[c],
                                 IF r.kind = "deadlock" THEN "DeadlockError"
                                 ELSE IF r.kind = "valueerror" THEN "ValueError"
                                 ELSE IF r.kind = "assert" \/ ~checked THEN "AssertionError"
                                 ELSE "ok",
                                 r.installed)
    /\ UNCHANGED timeout

\* DefaultLockManager.lock, from the call to the first point where the mutex
\* is given up: the wait in _wait, the native lock function, or the return.
LockCall(c, level) ==
    /\ pc[c] = "idle"
    /\ LET r == FileLockLock(lock_holders, blocked_clients, c, level)
           checked == CheckInvariant(r.h, r.q)
       IN
       /\ lock_holders' = r.h
       /\ blocked_clients' = r.q
       /\ filelocks' = IF r.kind = "wait" THEN filelocks \cup {FileName} ELSE Finally(r.h)
       /\ IF r.kind = "wait"
          THEN /\ pc' = [pc EXCEPT ![c] = "waiting"]
               /\ level_req' = [level_req EXCEPT ![c] = level]
               /\ old_level' = [old_level EXCEPT ![c] = lock_holders[c]]
               /\ todo' = todo
               /\ last' = ReportOld(c, "lock", level, lock_holders[c], "blocked", r.installed)
          ELSE IF r.kind = "grant" /\ checked
          THEN /\ pc' = [pc EXCEPT ![c] = "callback"]
               /\ level_req' = [level_req EXCEPT ![c] = level]
               /\ old_level' = [old_level EXCEPT ![c] = lock_holders[c]]
               /\ todo' = [todo EXCEPT ![c] = AscendLevel(lock_holders[c], level)]
               /\ last' = ReportOld(c, "lock", level, lock_holders[c], "granted", r.installed)
          ELSE /\ Return(c)
               /\ last' = ReportOld(c, "lock", level, lock_holders[c],
                                 IF r.kind = "deadlock" THEN "DeadlockError"
                                 ELSE IF r.kind = "valueerror" THEN "ValueError"
                                 ELSE IF r.kind = "assert" \/ ~checked THEN "AssertionError"
                                 ELSE "ok",
                                 r.installed)
    /\ UNCHANGED timeout

\* _wait: the wait ran into the timeout without a signal.  The thread deletes
\* its BlockedClientInfo and raises _LockTimeoutError, which
\* DefaultLockManager.lock turns into DeadlockError.
WaitTimeout(c) ==
    /\ pc[c] = "waiting"
    /\ timeout # NoTimeout
    /\ blocked_clients' = RemoveWaiter(blocked_clients, c)
    /\ filelocks' = Finally(lock_holders)
    /\ Return(c)
    /\ last' = ReportOld(c, "timeout", level_req[c], old_level[c], "DeadlockError", <<>>)
    /\ UNCHANGED <<lock_holders, timeout>>

\* _wait: the signalled thread has the mutex again; it leaves _wait and lock.
WaitResume(c) ==
    /\ pc[c] = "signalled"
    /\ filelocks' = Finally(lock_holders)
    /\ IF lock_holders[c] = level_req[c] /\ CheckInvariant(lock_holders, blocked_clients)
       THEN /\ pc' = [pc EXCEPT ![c] = "callback"]
            /\ todo' = [todo EXCEPT ![c] = AscendLevel(old_level[c], level_req[c])]
            /\ UNCHANGED <<level_req, old_level>>
            /\ last' = ReportOld(c, "resume", level_req[c], old_level[c], "granted", <<>>)
       ELSE /\ Return(c)
            /\ last' = ReportOld(c, "resume", level_req[c], old_level[c], "AssertionError", <<>>)
    /\ UNCHANGED <<lock_holders, blocked_clients, timeout>>

\* lockfunc(l) returns; after the last level, lock_result(..., 0) and return.
LockFuncOk(c) ==
    /\ pc[c] = "callback"
    /\ todo[c] # <<>>
    /\ IF Tail(todo[c]) = <<>>
       THEN /\ Return(c)
            /\ last' = ReportOld(c, "lockfunc", level_req[c], old_level[c], "ok", <<>>)
       ELSE /\ todo' = [todo EXCEPT ![c] = Tail(todo[c])]
            /\ UNCHANGED <<pc, level_req, old_level>>
            /\ last' = ReportOld(c, "lockfunc", level_req[c], old_level[c], "called", <<>>)
    /\ UNCHANGED <<lock_holders, blocked_clients, filelocks, timeout>>

\* DefaultLockManager.unlock under the mutex: the holders and the queue it
\* leaves, the clients it signals, and whether check_invariant passed.
ManagerUnlock(c, level) ==
    LET r == FileLockUnlock(lock_holders, blocked_clients, c, level)
    IN  /\ lock_holders' = r.h
        /\ blocked_clients' = r.q
        /\ filelocks' = Finally(r.h)
        /\ pc' = [k \in DOMAIN pc |-> IF k \in r.sig THEN "signalled" ELSE
                                       IF k = c THEN "idle" ELSE pc[k]]
        /\ level_req' = [level_req EXCEPT ![c] = LOCK_NONE]
        /\ old_level' = [old_level EXCEPT ![c] = LOCK_NONE]
        /\ todo' = [todo EXCEPT ![c] = <<>>]

\* lockfunc(l) raises: unlock(filename, old_level, client), lock_result, raise.
LockFuncRaises(c) ==
    /\ pc[c] = "callback"
    /\ todo[c] # <<>>
    /\ ManagerUnlock(c, old_level[c])
    /\ last' = LET r == FileLockUnlock(lock_holders, blocked_clients, c, old_level[c])
               IN ReportOld(c, "lockfunc", level_req[c], old_level[c], IF r.ok THEN "LockFuncError" ELSE "AssertionError",
                         r.installed)
    /\ UNCHANGED timeout

\* DefaultLockManager.unlock called by an idle client
UnlockCall(c, level) ==
    /\ pc[c] = "idle"
    /\ ManagerUnlock(c, level)
    /\ last' = LET r == FileLockUnlock(lock_holders, blocked_clients, c, level)
               IN Report(c, "unlock", level, IF r.ok THEN "ok" ELSE "AssertionError", r.installed)
    /\ UNCHANGED timeout

\* Result codes handed to lock_result: 0 (SQLITE_OK) or not.
ResultCodes == {0, 1}

\* DefaultLockManager.lock_result ("pass"), called by the host for the lock
\* call that client c has just completed.
LockResultCall(c, resultcode) ==
    /\ pc[c] = "idle"
    /\ last.client = c /\ last.op = "lockfunc" /\ last.outcome = "ok"
    /\ last' = [ReportOld(c, "lock_result", last.level, last.old, "ok", <<>>)
                EXCEPT !.code = resultcode]
    /\ UNCHANGED <<lock_holders, blocked_clients, filelocks, timeout, pc,
                   level_req, old_level, todo>>

\* DefaultLockManager.is_idle: not self._filelocks
ManagerIsIdle == filelocks = {}

Next ==
    \/ \E c \in Clients, level \in LockLevels : LockCall(c, level) /\ UNCHANGED prog
    \/ \E c \in Clients, code \in ResultCodes : LockResultCall(c, code) /\ UNCHANGED prog
    \/ \E c \in Clients : WaitTimeout(c) /\ UNCHANGED prog
    \/ \E c \in Clients : WaitResume(c) /\ UNCHANGED prog
    \/ \E c \in Clients : LockFuncOk(c) /\ UNCHANGED prog
    \/ \E c \in Clients : LockFuncRaises(c) /\ UNCHANGED prog
    \/ \E c \in Clients, level \in UnlockLevels : UnlockCall(c, level) /\ UNCHANGED prog

\* Any number of calls by any client, in any interleaving; waits may time out
\* and the native lock function may raise.
Spec == Init /\ [][Next]_vars

----------------------------------------------------------------------------
\* CheckMutualExclusion: NumLockers threads, each running
\*   for level in lock_sequence: manager.lock(lockfunc, "filename", level, name)
\*   manager.unlock("filename", LOCK_NONE, name)
\* with lockfunc = lambda x: None.  A thread whose call raises stops (the
\* test's except clause).  No wait runs into the timeout: the manager blocks
\* forever (timeout None).

LockSequence == <<LOCK_RESERVED, LOCK_EXCLUSIVE>>

\* prog[c] is the number of calls thread c has started; Stopped after an exception.
Done == Len(LockSequence) + 1
Stopped == Len(LockSequence) + 2

Raised == last'.outcome \in {"DeadlockError", "AssertionError", "ValueError", "LockFuncError"}

LockerLock(c) ==
    /\ prog[c] < Len(LockSequence)
    /\ LockCall(c, LockSequence[prog[c] + 1])
    /\ prog' = [prog EXCEPT ![c] = IF Raised THEN Stopped ELSE prog[c] + 1]

LockerResume(c) ==
    /\ WaitResume(c)
    /\ prog' = [prog EXCEPT ![c] = IF Raised THEN Stopped ELSE prog[c]]

LockerLockFunc(c) ==
    /\ LockFuncOk(c)
    /\ UNCHANGED prog

LockerUnlock(c) ==
    /\ prog[c] = Len(LockSequence)
    /\ UnlockCall(c, LOCK_NONE)
    /\ prog' = [prog EXCEPT ![c] = IF Raised THEN Stopped ELSE Done]

LockerStep(c) == LockerLock(c) \/ LockerResume(c) \/ LockerLockFunc(c) \/ LockerUnlock(c)

NextLockers ==
    \/ \E c \in Lockers : LockerLock(c)
    \/ \E c \in Lockers : LockerResume(c)
    \/ \E c \in Lockers : LockerLockFunc(c)
    \/ \E c \in Lockers : LockerUnlock(c)

InitLockers == InitOver(Lockers, NoTimeout)

\* Every thread that can take a step eventually takes one.
SpecLockers ==
    InitLockers /\ [][NextLockers]_vars /\ \A c \in Lockers : WF_vars(LockerStep(c))

TypeOK ==
    /\ \A c \in DOMAIN lock_holders : lock_holders[c] \in LEVEL_NAMES
    /\ \A c \in DOMAIN pc : pc[c] \in {"idle", "waiting", "signalled", "callback"}

----------------------------------------------------------------------------
\* Properties

\* The step just taken belongs to client c's call of op.
StepOf(c, op) == last'.client = c /\ last'.op = op

\* No other client holds, waits or is inside a call.
Lone(c) ==
    /\ blocked_clients = <<>>
    /\ \A k \in Clients \ {c} : lock_holders[k] = LOCK_NONE /\ pc[k] = "idle"

\* C1: in every reachable state at most one client holds a level strictly
\* above SHARED (RESERVED, PENDING or EXCLUSIVE) on the file.
C1_AtMostOneAboveShared ==
    Cardinality({c \in Clients : lock_holders[c] > LOCK_SHARED}) <= 1

\* A client holds RESERVED or more while another one is blocked asking for
\* RESERVED or more and a third one's wait has just timed out.
C1_Witness ==
    \E c, d \in Clients :
        /\ c # d
        /\ lock_holders[c] >= LOCK_RESERVED
        /\ pc[d] = "waiting" /\ level_req[d] >= LOCK_RESERVED
        /\ last.op = "timeout"

\* C2: in every reachable state a client that holds EXCLUSIVE is the only
\* holder of the file.
C2_ExclusiveIsSoleHolder ==
    \A c \in Clients :
        lock_holders[c] = LOCK_EXCLUSIVE => Holders(lock_holders) = {c}

\* A client holds EXCLUSIVE while another is blocked asking for SHARED and a
\* third for EXCLUSIVE.
C2_Witness ==
    \E c, d, e \in Clients :
        /\ lock_holders[c] = LOCK_EXCLUSIVE
        /\ pc[d] = "waiting" /\ level_req[d] = LOCK_SHARED
        /\ pc[e] = "waiting" /\ level_req[e] = LOCK_EXCLUSIVE

\* C3: lock(RESERVED, B) and lock(EXCLUSIVE, B) by a client B that holds
\* SHARED while another client holds RESERVED or more raise DeadlockError at
\* once: B does not block, no waiter is enqueued, lockfunc is never called,
\* and holders and queue are as before.
C3_PromotionRefused ==
    [][\A c \in Clients :
        ( /\ StepOf(c, "lock")
          /\ last'.level \in {LOCK_RESERVED, LOCK_EXCLUSIVE}
          /\ lock_holders[c] = LOCK_SHARED
          /\ MaxOther(lock_holders, c) >= LOCK_RESERVED )
        => ( /\ last'.outcome = "DeadlockError"
             /\ pc'[c] = "idle"
             /\ todo'[c] = <<>>
             /\ lock_holders' = lock_holders
             /\ blocked_clients' = blocked_clients )
      ]_vars

\* A SHARED holder has just been refused EXCLUSIVE while another client
\* holds RESERVED or more.
C3_Witness ==
    /\ last.op = "lock" /\ last.level = LOCK_EXCLUSIVE /\ last.outcome = "DeadlockError"
    /\ \E c \in Clients :
         /\ last.client = c
         /\ lock_holders[c] = LOCK_SHARED
         /\ MaxOther(lock_holders, c) >= LOCK_RESERVED

\* C4 (as claimed): when lockfunc raises during lock(level, c), that exception
\* reaches the caller and c holds old_level again; a client that held nothing
\* is absent from the holders and a manager without holders is idle.
C4_RollbackAndReraise ==
    [][\A c \in Clients :
        ( /\ StepOf(c, "lockfunc")
          /\ last'.outcome \notin {"called", "ok"} )
        => ( /\ last'.outcome = "LockFuncError"
             /\ lock_holders'[c] = old_level[c]
             /\ (Holders(lock_holders') = {} => filelocks' = {}) )
      ]_vars

\* C5: a SHARED request by a client holding nothing, on a file whose holders
\* all hold SHARED and whose queue is empty, is granted on the fast path (no
\* waiter, no blocking); once the last holder has unlocked the manager is idle.
C5_SharedFastPath ==
    [][\A c \in Clients :
        /\ ( /\ StepOf(c, "lock") /\ last'.level = LOCK_SHARED
             /\ lock_holders[c] = LOCK_NONE
             /\ blocked_clients = <<>>
             /\ \A k \in Clients : lock_holders[k] <= LOCK_SHARED )
           => ( /\ last'.outcome = "granted"
                /\ pc'[c] = "callback"
                /\ lock_holders' = [lock_holders EXCEPT ![c] = LOCK_SHARED]
                /\ blocked_clients' = <<>> )
        /\ ( /\ StepOf(c, "unlock") /\ last'.level = LOCK_NONE
             /\ Holders(lock_holders') = {} )
           => filelocks' = {}
      ]_vars

\* Every client holds SHARED, the last of them granted without a wait.
C5_Witness ==
    /\ \A c \in Clients : lock_holders[c] = LOCK_SHARED
    /\ blocked_clients = <<>>
    /\ last.op = "lock" /\ last.outcome = "granted"

\* C6: a SHARED request by a client holding nothing blocks while another
\* client holds PENDING or EXCLUSIVE; a client blocked for SHARED is not among
\* the holders; and SHARED is written for a client only when no other client
\* holds PENDING or EXCLUSIVE at that moment.
C6_PendingBlocksShared ==
    [][\A c \in Clients :
        /\ ( /\ StepOf(c, "lock") /\ last'.level = LOCK_SHARED
             /\ lock_holders[c] = LOCK_NONE
             /\ MaxOther(lock_holders, c) >= LOCK_PENDING )
           => ( /\ last'.outcome = "blocked"
                /\ pc'[c] = "waiting"
                /\ lock_holders' = lock_holders )
        /\ (pc'[c] = "waiting" /\ level_req'[c] = LOCK_SHARED)
           => lock_holders'[c] = LOCK_NONE
        /\ (lock_holders[c] = LOCK_NONE /\ lock_holders'[c] = LOCK_SHARED)
           => ( /\ \A d \in Clients \ {c} :
                     ~(lock_holders[d] >= LOCK_PENDING /\ lock_holders'[d] >= LOCK_PENDING)
                /\ \E i \in 1..Len(last'.installed) :
                     /\ last'.installed[i].client = c
                     /\ last'.installed[i].level = LOCK_SHARED
                     /\ last'.installed[i].max_other < LOCK_PENDING )
      ]_vars

\* A client that was blocked asking for SHARED has been granted it by the
\* unlock of the client that held EXCLUSIVE.
C6_Witness ==
    \E c \in Clients :
        /\ pc[c] = "signalled" /\ level_req[c] = LOCK_SHARED
        /\ lock_holders[c] = LOCK_SHARED
        /\ last.op = "unlock"
        /\ last.installed # <<>> /\ last.installed[1].client = c

\* C7: EXCLUSIVE requested by a client holding nothing while the others hold
\* SHARED at most (and some do) installs PENDING and blocks at the head of the
\* queue; while it is blocked, the step that removes the last other holder
\* grants it EXCLUSIVE and leaves every other blocked client blocked and
\* without a level; and as long as it keeps PENDING or EXCLUSIVE no other
\* client gets SHARED.
C7_PendingThenExclusive ==
    [][\A c \in Clients :
        /\ ( /\ StepOf(c, "lock") /\ last'.level = LOCK_EXCLUSIVE
             /\ lock_holders[c] = LOCK_NONE
             /\ MaxOther(lock_holders, c) = LOCK_SHARED )
           => ( /\ last'.outcome = "blocked"
                /\ pc'[c] = "waiting"
                /\ lock_holders' = [lock_holders EXCEPT ![c] = LOCK_PENDING]
                /\ blocked_clients' # <<>>
                /\ Head(blocked_clients') = Waiter(c, LOCK_EXCLUSIVE) )
        /\ ( /\ pc[c] = "waiting" /\ lock_holders[c] = LOCK_PENDING
             /\ Holders(lock_holders) \ {c} # {}
             /\ Holders(lock_holders') \ {c} = {} )
           => ( /\ lock_holders'[c] = LOCK_EXCLUSIVE
                /\ pc'[c] = "signalled"
                /\ \A d \in Clients \ {c} :
                     pc[d] = "waiting" => pc'[d] = "waiting" /\ lock_holders'[d] = LOCK_NONE )
        /\ (lock_holders[c] >= LOCK_PENDING /\ lock_holders'[c] >= LOCK_PENDING)
           => \A d \in Clients \ {c} :
                lock_holders'[d] = LOCK_SHARED => lock_holders[d] = LOCK_SHARED
      ]_vars

\* A client that held nothing has gone through PENDING to EXCLUSIVE in the
\* unlock of the last reader, past a client still blocked asking for SHARED.
C7_Witness ==
    \E c, d \in Clients :
        /\ pc[c] = "signalled" /\ level_req[c] = LOCK_EXCLUSIVE /\ old_level[c] = LOCK_NONE
        /\ lock_holders[c] = LOCK_EXCLUSIVE
        /\ pc[d] = "waiting" /\ level_req[d] = LOCK_SHARED
        /\ last.op = "unlock"

C9_LoneRaiseLower ==
    [][\A c \in Clients :
        (Lone(c) /\ lock_holders[c] # LOCK_PENDING /\ last'.client = c)
        => ( /\ ( /\ last'.op = "lock"
                  /\ last'.level \in {LOCK_SHARED, LOCK_RESERVED, LOCK_EXCLUSIVE}
                  /\ last'.level > lock_holders[c] )
                => ( /\ last'.outcome = "granted"
                     /\ pc'[c] = "callback"
                     /\ lock_holders'[c] = last'.level )
             /\ (last'.op = "lockfunc" /\ last'.outcome \in {"called", "ok"})
                => lock_holders'[c] = level_req[c]
             /\ (last'.op = "unlock" /\ last'.level < lock_holders[c])
                => ( /\ last'.outcome = "ok"
                     /\ pc'[c] = "idle"
                     /\ lock_holders'[c] = last'.level )
             /\ (last'.op = "unlock" /\ last'.level = LOCK_NONE)
                => (filelocks' = {} /\ Holders(lock_holders') = {}) )
      ]_vars

\* A lone client that held RESERVED has been granted EXCLUSIVE without a wait.
C9_Witness ==
    \E c \in Clients :
        /\ Lone(c) /\ pc[c] = "callback"
        /\ old_level[c] = LOCK_RESERVED /\ level_req[c] = LOCK_EXCLUSIVE
        /\ lock_holders[c] = LOCK_EXCLUSIVE

\* C10: unlock(L, c) while c holds L or less raises nothing, runs no grant and
\* changes neither a held level, nor the queue, nor a thread's position, nor
\* the registered file locks.
C10_UnlockNoop ==
    [][\A c \in Clients :
        (StepOf(c, "unlock") /\ lock_holders[c] <= last'.level)
        => ( /\ last'.outcome = "ok"
             /\ last'.installed = <<>>
             /\ UNCHANGED <<lock_holders, blocked_clients, filelocks, pc,
                            level_req, old_level, todo>> )
      ]_vars

\* An unlock that changed nothing, made while the head of the queue asks for
\* SHARED and no holder stands in its way (a wait in front of it timed out).
C10_Witness ==
    /\ last.op = "unlock" /\ last.outcome = "ok"
    /\ lock_holders[last.client] < last.level
    /\ blocked_clients # <<>>
    /\ Head(blocked_clients).level = LOCK_SHARED
    /\ MaxLevel(lock_holders) < LOCK_PENDING

\* C11: a lock call of a client at a level at or below the level it holds
\* returns at once with old_level equal to the held level, changes no holder
\* and no waiter, enqueues nothing and invokes the native callback zero
\* times, whatever the other clients hold or wait for.
C11_RepeatedLockIsNoop ==
    [][\A c \in Clients :
          (/\ StepOf(c, "lock")
           /\ lock_holders[c] > LOCK_NONE
           /\ last'.level <= lock_holders[c])
          => /\ last'.outcome = "ok"
             /\ last'.old = lock_holders[c]
             /\ UNCHANGED <<lock_holders, blocked_clients, filelocks>>
             /\ pc'[c] = "idle"
             /\ todo'[c] = <<>>]_vars

\* The levels the native callback is due for in a lock call from old to new.
CallbackLevels(old, new) ==
    {l \in {LOCK_SHARED, LOCK_RESERVED, LOCK_EXCLUSIVE} : old < l /\ l <= new}

StrictlyAscending(s) == \A i, j \in DOMAIN s : i < j => s[i] < s[j]

\* C12: a granted lock call invokes the native callback exactly once for each
\* level of SHARED, RESERVED, EXCLUSIVE strictly above the level held at the
\* start of the call and at most the requested level, in ascending order and
\* never with PENDING; a callback that raises ends the sequence, so no higher
\* level is attempted.  (todo[c] is what is still to be invoked; a lockfunc
\* step invokes its head.)
C12_CallbackSequence ==
    [][\A c \in Clients :
          /\ (StepOf(c, "lock") /\ last'.outcome \in {"granted", "blocked"})
             => old_level'[c] = lock_holders[c] /\ level_req'[c] = last'.level
          /\ (pc[c] # "callback" /\ pc'[c] = "callback")
             => /\ last'.client = c /\ last'.outcome = "granted"
                /\ last'.old = old_level'[c]
                /\ level_req'[c] \in {LOCK_SHARED, LOCK_RESERVED, LOCK_EXCLUSIVE}
                /\ StrictlyAscending(todo'[c])
                /\ {todo'[c][i] : i \in DOMAIN todo'[c]}
                       = CallbackLevels(old_level'[c], level_req'[c])
                /\ todo'[c] # <<>>
          /\ (pc[c] = "callback" /\ StepOf(c, "lockfunc"))
             => IF last'.outcome \in {"called", "ok"}
                THEN /\ todo'[c] = Tail(todo[c])
                     /\ pc'[c] = IF Tail(todo[c]) = <<>> THEN "idle" ELSE "callback"
                     /\ last'.outcome = IF Tail(todo[c]) = <<>> THEN "ok" ELSE "called"
                ELSE /\ last'.outcome \in {"LockFuncError", "AssertionError"}
                     /\ todo'[c] = <<>>
                     /\ pc'[c] = "idle"
          /\ (pc[c] = "callback" /\ ~StepOf(c, "lockfunc"))
             => todo'[c] = todo[c] /\ pc'[c] = "callback"
          /\ pc[c] # "callback" => ~StepOf(c, "lockfunc")]_vars

C12_Witness ==
    \E c \in Clients :
        /\ pc[c] = "callback"
        /\ old_level[c] = LOCK_NONE
        /\ level_req[c] = LOCK_EXCLUSIVE
        /\ todo[c] = <<LOCK_EXCLUSIVE>>
        /\ last = ReportOld(c, "lockfunc", LOCK_EXCLUSIVE, LOCK_NONE, "called", <<>>)

\* C13: lock_result with a non-zero code, after a lock call of the client was
\* granted, puts the client back to the level it held just before that call
\* (removing it if it held nothing) and runs the scheduler, which is what
\* unlock to that level does; with code 0 the granted level stays.
C13_LockResultRollsBack ==
    [][\A c \in Clients :
          StepOf(c, "lock_result")
          => IF last'.code # 0
             THEN LET r == FileLockUnlock(lock_holders, blocked_clients, c, last'.old)
                  IN  /\ lock_holders'[c] = last'.old
                      /\ lock_holders' = r.h
                      /\ blocked_clients' = r.q
             ELSE /\ lock_holders'[c] = last'.level
                  /\ UNCHANGED <<lock_holders, blocked_clients>>]_vars

\* C14: a lock call whose wait runs into the configured timeout without a
\* signal fails with DeadlockError, its waiter record is gone from the queue
\* and the native callback is not invoked for it; a wait fails in no other
\* way, and with timeout None it does not fail at all.
C14_TimeoutIsDeadlock ==
    [][\A c \in Clients :
          /\ StepOf(c, "timeout")
             => /\ timeout # NoTimeout
                /\ pc[c] = "waiting"
                /\ last'.outcome = "DeadlockError"
                /\ \A i \in DOMAIN blocked_clients' : blocked_clients'[i].client # c
                /\ Len(blocked_clients') = Len(blocked_clients) - 1
                /\ todo[c] = <<>> /\ todo'[c] = <<>>
                /\ pc'[c] = "idle"
          /\ (pc[c] = "waiting" /\ pc'[c] # "waiting")
             => \/ StepOf(c, "timeout")
                \/ pc'[c] = "signalled" /\ last'.client # c
          /\ (pc[c] = "waiting" /\ timeout = NoTimeout)
             => pc'[c] \in {"waiting", "signalled"}]_vars

C14_Witness ==
    \E c \in Clients :
        /\ last.client = c /\ last.op = "timeout" /\ last.outcome = "DeadlockError"
        /\ pc[c] = "idle"
        /\ blocked_clients # <<>>
        /\ blocked_clients[1].client # c

\* _wakeup_blocked would grant the head of the queue: the head's target level
\* passes the test of its branch against the other holders.
HeadGrantable(h, q) ==
    /\ q # <<>>
    /\ LET max_level == MaxOther(h, q[1].client)
       IN  \/ q[1].level = LOCK_SHARED /\ max_level < LOCK_PENDING
           \/ q[1].level = LOCK_RESERVED /\ max_level < LOCK_RESERVED
           \/ q[1].level = LOCK_EXCLUSIVE /\ max_level = LOCK_NONE

\* C15: when a timed-out waiter is removed from the queue the scheduler is
\* re-run at that moment, so a successor that is grantable in the resulting
\* state is granted then: the step leaves holders and queue as
\* _wakeup_blocked leaves them, with no grantable waiter at the head.
C15_TimeoutRerunsScheduler ==
    [][\A c \in Clients :
          StepOf(c, "timeout")
          => LET r == WakeupLoop(lock_holders, RemoveWaiter(blocked_clients, c), {}, <<>>)
             IN  /\ lock_holders' = r.h
                 /\ blocked_clients' = r.q
                 /\ ~HeadGrantable(lock_holders', blocked_clients')]_vars

\* C16: in every state between manager calls, timed-out waits included,
\* whenever a client holds PENDING at least one other client holds SHARED.
C16_PendingHasSharedHolder ==
    \A c \in Clients :
        lock_holders[c] = LOCK_PENDING
        => \E d \in Clients \ {c} : lock_holders[d] = LOCK_SHARED

\* C17: in every state between manager calls, timed-out waits included, if
\* the waiter at the head of the queue targets SHARED then the maximum level
\* held on the file is at least PENDING.
C17_SharedHeadBehindPending ==
    (blocked_clients # <<>> /\ blocked_clients[1].level = LOCK_SHARED)
    => MaxLevel(lock_holders) >= LOCK_PENDING

\* C18: in every reachable state, if the waiter queue is non-empty then at
\* least one client holds a level above NONE.
C18_WaitersImplyHolder ==
    blocked_clients # <<>>
    => \E c \in Clients : lock_holders[c] > LOCK_NONE

\* A waiter stays queued behind a holder after an unlock and after another
\* waiter's timeout.
C18_Witness ==
    /\ blocked_clients # <<>>
    /\ last.op \in {"unlock", "timeout"}
    /\ Cardinality({c \in Clients : lock_holders[c] > LOCK_NONE}) = 1

\* C19: at the end of every manager operation (lock with its Deadlock and
\* callback-failure exits, unlock) the filename is registered in the
\* manager's map iff its file lock has a holder or a waiter; a file lock with
\* queued waiters is never removed, and the manager's is_idle() is true
\* exactly when no client holds or waits on any file.
C19_RegisteredIffInUse ==
    LET inUse == \/ \E c \in Clients : lock_holders[c] > LOCK_NONE
                 \/ blocked_clients # <<>>
    IN  /\ FileName \in filelocks <=> inUse
        /\ blocked_clients # <<>> => FileName \in filelocks
        /\ ManagerIsIdle <=> ~inUse

\* The map after a Deadlock exit that leaves other waiters queued.
C19_Witness ==
    /\ last.op = "timeout" /\ last.outcome = "DeadlockError"
    /\ blocked_clients # <<>>
    /\ FileName \in filelocks
    /\ ~ManagerIsIdle

\* C20, as the specification states it: a lock call with a level outside
\* SHARED, RESERVED, EXCLUSIVE (NONE or PENDING) fails with the invalid-level
\* error whatever level the client holds, and leaves holders and the waiter
\* queue unchanged.
C20_InvalidLevelAlwaysFails ==
    [][\A c \in Clients :
          (StepOf(c, "lock") /\ last'.level \in {LOCK_NONE, LOCK_PENDING})
          => /\ last'.outcome = "ValueError"
             /\ UNCHANGED <<lock_holders, blocked_clients>>]_vars

\* C20, amended: a lock call with NONE or PENDING leaves holders and the
\* waiter queue unchanged whatever level the client holds; it fails with the
\* invalid-level error exactly when the level is above the level the client
\* holds (PENDING while holding NONE, SHARED or RESERVED), and is otherwise
\* the no-op of a request at or below the held level: no invalid-level
\* error, no wait, no callback.
C20_InvalidLevelAboveHeld ==
    [][\A c \in Clients :
          (StepOf(c, "lock") /\ last'.level \in {LOCK_NONE, LOCK_PENDING})
          => /\ last'.outcome = "ValueError" <=> last'.level > lock_holders[c]
             /\ last'.outcome \in {"ValueError", "ok", "AssertionError"}
             /\ UNCHANGED <<lock_holders, blocked_clients>>
             /\ pc'[c] = "idle"
             /\ todo'[c] = <<>>]_vars

C20_Witness ==
    \E c \in Clients :
        /\ last.client = c /\ last.op = "lock" /\ last.level = LOCK_PENDING
        /\ last.outcome = "ValueError"
        /\ lock_holders[c] = LOCK_SHARED
        /\ pc[c] = "idle"

\* C21: a new waiter is placed ahead of the waiters already queued only when
\* its client holds RESERVED and requests EXCLUSIVE; every other blocked
\* request is appended behind all waiters already queued.
C21_HeadInsertionOnlyForReserved ==
    [][\A c \in Clients :
          (StepOf(c, "lock") /\ last'.outcome = "blocked" /\ blocked_clients # <<>>)
          => IF lock_holders[c] = LOCK_RESERVED /\ last'.level = LOCK_EXCLUSIVE
             THEN blocked_clients' = <<Waiter(c, last'.level)>> \o blocked_clients
             ELSE blocked_clients' = Append(blocked_clients, Waiter(c, last'.level))]_vars

\* C22: a lock call is refused at once with Deadlock only when the requester
\* holds SHARED and another client holds RESERVED or higher: a client holding
\* nothing and a RESERVED holder requesting EXCLUSIVE are never refused at
\* once, and a SHARED holder requesting RESERVED is not refused merely
\* because the waiter queue is non-empty.
C22_SyncRefusalOnlyForShared ==
    [][\A c \in Clients :
          (StepOf(c, "lock") /\ last'.outcome = "DeadlockError")
          => /\ lock_holders[c] = LOCK_SHARED
             /\ \E d \in Clients \ {c} : lock_holders[d] >= LOCK_RESERVED
             /\ last'.level \in {LOCK_RESERVED, LOCK_EXCLUSIVE}
             /\ UNCHANGED <<lock_holders, blocked_clients>>]_vars

\* A SHARED holder is refused while a writer holds RESERVED and a waiter is
\* queued.
C22_Witness ==
    \E c \in Clients :
        /\ last.client = c /\ last.op = "lock" /\ last.outcome = "DeadlockError"
        /\ lock_holders[c] = LOCK_SHARED
        /\ blocked_clients # <<>>

\* C23: the native callback of a lock call runs only after the arbitration
\* has installed the requested level for the client in the holders, and the
\* manager mutex is not held while it runs: lock and unlock calls of the
\* other clients can proceed during the callback, and they find that level
\* held.
C23_CallbackAfterInstall ==
    \A c \in Clients :
        pc[c] = "callback"
        => /\ lock_holders[c] = level_req[c]
           /\ level_req[c] > old_level[c]
           /\ todo[c] # <<>>
           /\ \A d \in Clients \ {c} :
                  pc[d] = "idle"
                  => /\ \A level \in LockLevels : ENABLED LockCall(d, level)
                     /\ \A level \in UnlockLevels : ENABLED UnlockCall(d, level)

\* While client c is inside the callback for EXCLUSIVE, another client's lock
\* call has run and was queued behind that level.
C23_Witness ==
    \E c \in Clients, d \in Clients :
        /\ c # d
        /\ pc[c] = "callback" /\ lock_holders[c] = LOCK_EXCLUSIVE
        /\ todo[c] = <<LOCK_EXCLUSIVE>>
        /\ last.client = d /\ last.op = "lock" /\ last.outcome = "blocked"
        /\ pc[d] = "waiting"

\* A step of client c that runs the scheduler: an unlock that lowers c's
\* level, or the rollback after a failed callback.
SchedulerRun(c) ==
    \/ StepOf(c, "unlock") /\ last'.level < lock_holders[c]
    \/ StepOf(c, "lockfunc") /\ last'.outcome \in {"LockFuncError", "AssertionError"}

\* C24: each scheduler run (after an unlock that lowers a level, the rollback
\* after a callback failure included) grants waiters strictly in queue order
\* and stops at the first head that cannot be granted, so no waiter behind a
\* blocked head is granted even if it is compatible with the holders; when
\* the run ends, the head waiter (if any) does not satisfy its grant rule.
C24_SchedulerInQueueOrder ==
    [][\A c \in Clients :
          SchedulerRun(c)
          => LET q == blocked_clients
                 k == Len(q) - Len(blocked_clients')
                 grants == SelectSeq(last'.installed, LAMBDA g : g.level # LOCK_PENDING)
             IN  /\ k >= 0
                 /\ blocked_clients' = SubSeq(q, k + 1, Len(q))
                 /\ Len(grants) = k
                 /\ \A i \in 1..k :
                        /\ grants[i].client = q[i].client
                        /\ grants[i].level = q[i].level
                        /\ lock_holders'[q[i].client] = q[i].level
                        /\ pc'[q[i].client] = "signalled"
                 /\ \A i \in (k + 1)..Len(q) :
                        /\ pc'[q[i].client] = "waiting"
                        /\ lock_holders'[q[i].client] \in {lock_holders[q[i].client], LOCK_PENDING}
                        /\ lock_holders'[q[i].client] # q[i].level
                 /\ ~HeadGrantable(lock_holders', blocked_clients')]_vars

\* The run after EXCLUSIVE was lowered to RESERVED: the RESERVED waiter at
\* the head stays blocked, and the SHARED waiter behind it, compatible with
\* the holders, stays queued as well.
C24_Witness ==
    /\ last.op = "unlock"
    /\ lock_holders[last.client] = LOCK_RESERVED
    /\ Len(blocked_clients) = 2
    /\ blocked_clients[1].level = LOCK_RESERVED
    /\ blocked_clients[2].level = LOCK_SHARED
    /\ \A i \in 1..2 : pc[blocked_clients[i].client] = "waiting"
    /\ MaxOther(lock_holders, blocked_clients[2].client) < LOCK_PENDING

\* The position of client c's waiter record in queue q (0: none).
PositionOf(q, c) ==
    IF \E i \in DOMAIN q : q[i].client = c
    THEN CHOOSE i \in DOMAIN q : q[i].client = c
    ELSE 0

\* C25: a SHARED or RESERVED request by a client holding nothing that arrives
\* while the waiter queue is non-empty is enqueued at the tail and not
\* granted on the fast path, even when it is compatible with the holders; it
\* is granted only after every waiter that was ahead of it has been granted
\* or removed.
C25_QueuedBehindWaiters ==
    [][\A c \in Clients :
          /\ (/\ StepOf(c, "lock")
              /\ lock_holders[c] = LOCK_NONE
              /\ last'.level \in {LOCK_SHARED, LOCK_RESERVED}
              /\ blocked_clients # <<>>)
             => /\ last'.outcome = "blocked"
                /\ blocked_clients' = Append(blocked_clients, Waiter(c, last'.level))
                /\ lock_holders' = lock_holders
                /\ pc'[c] = "waiting"
          /\ (/\ pc[c] = "waiting"
              /\ \/ pc'[c] \in {"signalled", "callback"}
                 \/ lock_holders'[c] = level_req[c])
             => /\ PositionOf(blocked_clients, c) > 0
                /\ \A i \in 1..PositionOf(blocked_clients, c) :
                       PositionOf(blocked_clients', blocked_clients[i].client) = 0]_vars

\* A SHARED request that the holders would admit is queued behind a waiter.
C25_Witness ==
    \E c \in Clients :
        /\ last.client = c /\ last.op = "lock" /\ last.outcome = "blocked"
        /\ last.level = LOCK_SHARED /\ last.old = LOCK_NONE
        /\ MaxOther(lock_holders, c) < LOCK_PENDING
        /\ Len(blocked_clients) = 2
        /\ blocked_clients[2] = Waiter(c, LOCK_SHARED)

\* C26: each waiter is signalled at most once, and a waiter the scheduler has
\* granted (level installed in the holders, and signalled) always returns
\* success from lock, even when its timeout elapses before its thread
\* resumes: no lock call reports Deadlock for a timeout while the scheduler
\* has installed its target level for the client.
C26_SignalledWaiterSucceeds ==
    [][\A c \in Clients :
          /\ (pc[c] # "signalled" /\ pc'[c] = "signalled")
             => /\ pc[c] = "waiting"
                /\ PositionOf(blocked_clients, c) > 0
                /\ PositionOf(blocked_clients', c) = 0
                /\ lock_holders'[c] = level_req[c]
          /\ pc[c] = "signalled"
             => /\ PositionOf(blocked_clients, c) = 0
                /\ ~StepOf(c, "timeout")
                /\ pc'[c] # "signalled" => StepOf(c, "resume")
          /\ StepOf(c, "timeout") => lock_holders[c] # level_req[c]
          /\ StepOf(c, "resume")
             => /\ last'.outcome = "granted"
                /\ pc'[c] = "callback"
                /\ lock_holders'[c] = level_req[c]]_vars

\* C27: whenever SharedExclusiveLock.lock(level, c) returns normally for a
\* level above what c held, c holds exactly that level at the moment of
\* return (never PENDING, never a lower level), granted on the fast path or
\* after waiting, and the value returned is the level c held when the call
\* started.
C27_ReturnsWithRequestedLevel ==
    [][\A c \in Clients :
          /\ (StepOf(c, "lock") /\ last'.outcome = "granted")
             => /\ last'.level > lock_holders[c]
                /\ lock_holders'[c] = last'.level
                /\ last'.old = lock_holders[c]
          /\ (StepOf(c, "lock") /\ last'.outcome = "blocked")
             => /\ last'.level > lock_holders[c]
                /\ old_level'[c] = lock_holders[c]
                /\ level_req'[c] = last'.level
          /\ (pc[c] \in {"waiting", "signalled"} /\ pc'[c] \in {"waiting", "signalled"})
             => old_level'[c] = old_level[c] /\ level_req'[c] = level_req[c]
          /\ (StepOf(c, "resume") /\ last'.outcome = "granted")
             => /\ pc[c] = "signalled"
                /\ last'.level = level_req[c]
                /\ lock_holders'[c] = level_req[c]
                /\ last'.old = old_level[c]
                /\ level_req[c] > old_level[c]]_vars

\* A SHARED holder's promotion to EXCLUSIVE has returned after a wait during
\* which it held PENDING.
C27_Witness ==
    \E c \in Clients :
        /\ last = ReportOld(c, "resume", LOCK_EXCLUSIVE, LOCK_SHARED, "granted", <<>>)
        /\ lock_holders[c] = LOCK_EXCLUSIVE
        /\ pc[c] = "callback"

\* C28: no waiter in the queue belongs to a client that holds SHARED,
\* RESERVED or EXCLUSIVE: a queued client holds nothing or PENDING, so the
\* scheduler never meets an EXCLUSIVE waiter whose client holds SHARED while
\* another client holds RESERVED or higher.
C28_QueuedClientHoldsNothingOrPending ==
    \A i \in DOMAIN blocked_clients :
        LET c == blocked_clients[i].client
        IN  /\ lock_holders[c] \in {LOCK_NONE, LOCK_PENDING}
            /\ ~(/\ blocked_clients[i].level = LOCK_EXCLUSIVE
                 /\ lock_holders[c] = LOCK_SHARED
                 /\ MaxOther(lock_holders, c) >= LOCK_RESERVED)

C28_Witness ==
    /\ Len(blocked_clients) = 2
    /\ lock_holders[blocked_clients[1].client] = LOCK_PENDING
    /\ lock_holders[blocked_clients[2].client] = LOCK_NONE
    /\ last.op = "lock" /\ last.outcome = "blocked"

\* C29: when a lock call fails because its wait timed out, the client's held
\* level equals the level it held when the call started: a PENDING installed
\* for the client during that call does not remain in the holders.
C29_TimeoutRestoresLevel ==
    [][\A c \in Clients :
          StepOf(c, "timeout")
          => lock_holders'[c] = old_level[c]]_vars

\* C30: PENDING is held only by a waiting promoter: in every reachable state
\* a client that holds PENDING has a waiter record targeting EXCLUSIVE at the
\* head of the queue, and no client holds PENDING while it is not blocked
\* inside a lock call.
C30_PendingOnlyWhileWaiting ==
    \A c \in Clients :
        lock_holders[c] = LOCK_PENDING
        => /\ blocked_clients # <<>>
           /\ blocked_clients[1] = Waiter(c, LOCK_EXCLUSIVE)
           /\ pc[c] = "waiting"

====
